---- MODULE Spec2Model ----
(***************************************************************************)
(* Model of the command-line parser of xo/kobra: the command tree, flag    *)
(* lookup, default population, the token scanner (Parse, parse, parseLong, *)
(* parseShort) and the suggestion engine (Command.Suggest).                *)
(*                                                                         *)
(* A Go string is modelled as a sequence of one-character strings, so that *)
(* strings.Cut, strings.TrimPrefix, slices.Index, re-slicing and the edit  *)
(* distance work on characters as the code does.                           *)
(***************************************************************************)
EXTENDS Integers, Sequences, FiniteSets, TLC

\* Longest argument vector handed to Parse.
MaxArgs == 3

\* Go's nil for a value of type any (Flag.Def, Flag.NoArgDef): no character
\* sequence of a real string equals it.
Nil == <<"<nil>">>

\* Go's nil *Command.
NoCmd == 0

(***************************************************************************)
(* Strings used by the tree and the argument vectors.                      *)
(***************************************************************************)
sApp == <<"a", "p", "p">>
sPush == <<"p", "u", "s", "h">>
sPull == <<"p", "u", "l", "l">>
sPl == <<"p", "l">>
sFetch == <<"f", "e", "t", "c", "h">>
sOrg == <<"o", "r", "g">>
sOut == <<"o", "u", "t">>
sAll == <<"a", "l", "l">>
sBig == <<"b", "i", "g">>
sCut == <<"c", "u", "t">>
sNo == <<"n", "o">>
sTrue == <<"t", "r", "u", "e">>
sFalse == <<"f", "a", "l", "s", "e">>
sOn == <<"o", "n">>
sPul == <<"P", "u", "l">>
sZzz == <<"z", "z", "z">>
sX == <<"x">>
sEq == <<"=">>
sDash == <<"-">>
sDashDash == <<"-", "-">>
sHelp == <<"h", "e", "l", "p">>
sTag == <<"t", "a", "g">>
sEnv == <<"e", "n", "v">>
sPu == <<"p", "u">>
sOr == <<"o", "r">>
sUP == <<"U", "p">>
sUp == <<"u", "p">>
sComma == <<",">>

\* The help hook NewHelpFor installs as a flag's Def: a function that writes
\* the help and returns ErrExit.
HelpHook == <<"<func:help>">>

(***************************************************************************)
(* The command tree.  A command is a record of the fields of Command that  *)
(* parsing reads; Commands holds the ids of the children in declaration    *)
(* order, Parent the id of the parent (NoCmd for the root), Flags the      *)
(* FlagSet's flags in declaration order (empty for a nil FlagSet), MinDist  *)
(* the help's minimum distance (0 when the command has no such help).      *)
(***************************************************************************)
NewFlagRec(name, short, type, def, noArg, noArgDef) ==
    [Name |-> name, Short |-> short, Aliases |-> <<>>, Type |-> type,
     Def |-> def, NoArg |-> noArg, NoArgDef |-> noArgDef, Special |-> <<>>]

RootFlags ==
    << NewFlagRec(sOut, <<"o">>, "StringT", <<"r">>, FALSE, Nil),
       NewFlagRec(sAll, <<"a">>, "StringT", Nil, TRUE, sTrue),
       NewFlagRec(sBig, <<"b">>, "StringT", Nil, TRUE, sOn),
       NewFlagRec(sCut, <<"c">>, "BoolT", sTrue, TRUE, sTrue),
       NewFlagRec(sHelp, <<"h">>, "HookT", HelpHook, TRUE, <<>>) >>

PushFlags ==
    << NewFlagRec(sOut, <<"o">>, "StringT", <<"p">>, FALSE, Nil),
       NewFlagRec(sNo, <<>>, "StringT", Nil, TRUE, sTrue) >>

FetchFlags ==
    << NewFlagRec(sTag, <<"t">>, "SliceT", <<"t">>, FALSE, Nil),
       NewFlagRec(sEnv, <<"e">>, "MapT", <<"k", "=", "v">>, FALSE, Nil) >>

Tree ==
    << [Name |-> sApp, Aliases |-> <<>>, Suggested |-> <<>>, Parent |-> NoCmd,
        Commands |-> <<2, 3, 4>>, Flags |-> RootFlags, MinDist |-> 0],
       [Name |-> sPush, Aliases |-> <<>>, Suggested |-> <<>>, Parent |-> 1,
        Commands |-> <<5>>, Flags |-> PushFlags, MinDist |-> 1],
       [Name |-> sPull, Aliases |-> <<sPl>>, Suggested |-> <<>>, Parent |-> 1,
        Commands |-> <<>>, Flags |-> <<>>, MinDist |-> 0],
       [Name |-> sFetch, Aliases |-> <<sPl>>, Suggested |-> <<>>, Parent |-> 1,
        Commands |-> <<6, 7>>, Flags |-> FetchFlags, MinDist |-> 0],
       [Name |-> sOrg, Aliases |-> <<>>, Suggested |-> <<sPull>>, Parent |-> 2,
        Commands |-> <<>>, Flags |-> <<>>, MinDist |-> 0],
       [Name |-> sUP, Aliases |-> <<>>, Suggested |-> <<>>, Parent |-> 4,
        Commands |-> <<>>, Flags |-> <<>>, MinDist |-> 0],
       [Name |-> sUp, Aliases |-> <<>>, Suggested |-> <<>>, Parent |-> 4,
        Commands |-> <<>>, Flags |-> <<>>, MinDist |-> 0] >>

Root == 1

CmdIds == DOMAIN Tree

(***************************************************************************)
(* String helpers.                                                         *)
(***************************************************************************)
\* slices.Index / strings.Index for one character: the 0-based index of the
\* first occurrence of ch in str, -1 when there is none.
RECURSIVE IndexFrom(_, _, _)
IndexFrom(str, ch, i) ==
    IF i > Len(str) THEN -1
    ELSE IF str[i] = ch THEN i - 1
    ELSE IndexFrom(str, ch, i + 1)

Index(str, ch) == IndexFrom(str, ch, 1)

\* str[i:] for a 0-based i.
SliceFrom(str, i) == SubSeq(str, i + 1, Len(str))

\* strings.HasPrefix.
HasPrefix(str, p) == Len(str) >= Len(p) /\ SubSeq(str, 1, Len(p)) = p

\* strings.TrimPrefix.
TrimPrefix(str, p) == IF HasPrefix(str, p) THEN SliceFrom(str, Len(p)) ELSE str

\* strings.Cut(str, "="): before, after, found.
Cut(str) ==
    LET i == Index(str, "=")
    IN IF i < 0 THEN [before |-> str, after |-> <<>>, found |-> FALSE]
       ELSE [before |-> SubSeq(str, 1, i), after |-> SliceFrom(str, i + 1),
             found |-> TRUE]

\* strings.Contains for a slice of strings.
Contains(strs, str) == \E i \in DOMAIN strs : strs[i] = str

\* unicode.ToLower for the letters the model uses.
LowerRune(ch) ==
    CASE ch = "P" -> "p"
      [] ch = "U" -> "u"
      [] ch = "L" -> "l"
      [] ch = "S" -> "s"
      [] ch = "H" -> "h"
      [] OTHER -> ch

\* strings.ToLower.
ToLower(str) == [i \in DOMAIN str |-> LowerRune(str[i])]

Min3(a, b, c) ==
    IF a <= b /\ a <= c THEN a ELSE IF b <= c THEN b ELSE c

(***************************************************************************)
(* Ldist: the Levenshtein distance of two rune sequences, by the classic   *)
(* dynamic program, one row at a time: insertion, deletion and             *)
(* substitution cost 1 each, no transposition.                             *)
(***************************************************************************)
RECURSIVE LdistRow(_, _, _, _)
LdistRow(prev, ch, b, row) ==
    IF Len(row) = Len(b) + 1 THEN row
    ELSE LET j == Len(row)
             cost == IF b[j] = ch THEN 0 ELSE 1
         IN LdistRow(prev, ch, b,
                     Append(row, Min3(prev[j + 1] + 1, row[j] + 1, prev[j] + cost)))

RECURSIVE LdistFrom(_, _, _)
LdistFrom(a, b, prev) ==
    IF a = <<>> THEN prev[Len(b) + 1]
    ELSE LdistFrom(Tail(a), b, LdistRow(prev, Head(a), b, <<prev[1] + 1>>))

Ldist(a, b) == LdistFrom(a, b, [j \in 1..(Len(b) + 1) |-> j - 1])

\* The threshold used when the command's help sets none.
DefaultMinDist == 2

(***************************************************************************)
(* Command tree lookups.                                                   *)
(***************************************************************************)
\* Command.Command: the first child, in declaration order, whose name or
\* one of whose aliases is exactly name; NoCmd when there is none.
\* CommandFrom that returns the last child answering to the name.
RECURSIVE CommandFromLast(_, _, _)
CommandFromLast(kids, name, i) ==
    IF i > Len(kids) THEN NoCmd
    ELSE LET later == CommandFromLast(kids, name, i + 1)
         IN IF later # NoCmd THEN later
            ELSE IF Tree[kids[i]].Name = name \/ Contains(Tree[kids[i]].Aliases, name)
            THEN kids[i]
            ELSE NoCmd

RECURSIVE CommandFrom(_, _, _)
CommandFrom(kids, name, i) ==
    IF i > Len(kids) THEN NoCmd
    ELSE IF Tree[kids[i]].Name = name \/ Contains(Tree[kids[i]].Aliases, name)
         THEN kids[i]
    ELSE CommandFrom(kids, name, i + 1)

Command(c, name) == CommandFrom(Tree[c].Commands, name, 1)

\* A flag is referred to by the command that declares it and its index in
\* that command's FlagSet; NoFlag is Go's nil *Flag.
NoFlag == [cmd |-> NoCmd, idx |-> 0]

FlagAt(ref) == Tree[ref.cmd].Flags[ref.idx]

\* The predicate of Command.Flag's slices.IndexFunc.
FlagMatches(g, name, short) ==
    \/ g.Name = name /\ ~short
    \/ g.Short = name /\ short
    \/ \E i \in DOMAIN g.Aliases :
          g.Aliases[i] = name /\ ((Len(g.Aliases[i]) = 1) = short)

RECURSIVE FlagIndexFrom(_, _, _, _)
FlagIndexFrom(flags, name, short, i) ==
    IF i > Len(flags) THEN 0
    ELSE IF FlagMatches(flags[i], name, short) THEN i
    ELSE FlagIndexFrom(flags, name, short, i + 1)

\* Command.Flag that never looks at the parents.
FlagOwnOnly(c, name, parents, short) ==
    LET i == FlagIndexFrom(Tree[c].Flags, name, short, 1)
    IN IF i # 0 THEN [cmd |-> c, idx |-> i] ELSE NoFlag

\* Command.Flag: the command's own flags first, then, when parents is set,
\* its ancestors', nearest first.
RECURSIVE Flag(_, _, _, _)
Flag(c, name, parents, short) ==
    LET i == FlagIndexFrom(Tree[c].Flags, name, short, 1)
    IN IF i # 0 THEN [cmd |-> c, idx |-> i]
       ELSE IF parents /\ Tree[c].Parent # NoCmd
            THEN Flag(Tree[c].Parent, name, parents, short)
       ELSE NoFlag

\* parseLong's and parseShort's flag lookups.
LongFlag(c, name) == Flag(c, name, TRUE, FALSE)

ShortFlag(c, name) == Flag(c, name, TRUE, TRUE)

(***************************************************************************)
(* Values and Vars.  Vars maps a flag's long name to its value: val is the *)
(* text the value holds, set whether an explicit assignment made it.       *)
(***************************************************************************)
\* The texts strconv.ParseBool accepts, over the model's strings.
BoolTexts == {sTrue, sFalse, <<"1">>, <<"0">>, <<"t">>, <<"f">>}

\* Whether the text parses as a value of the type.
Coerces(type, text) ==
    CASE type = "BoolT" -> text \in BoolTexts
      [] OTHER -> TRUE

\* toBoolString: the text substituted for a no-argument flag, computed from
\* the flag's Def alone: the negation of a boolean default, "true" otherwise.
toBoolString(def) == IF def = sTrue THEN sFalse ELSE sTrue

\* Context.Expand of a literal default.
Expand(def) == def

NoVars == << >>

Put(vars_, name, val, set) ==
    [n \in (DOMAIN vars_) \cup {name} |->
        IF n = name THEN [val |-> val, set |-> set] ELSE vars_[n]]

Delete(vars_, name) == [n \in (DOMAIN vars_) \ {name} |-> vars_[n]]

\* Whether repeated explicit assignments of the type accumulate.
Accumulates(type) == type \in {"SliceT", "MapT"}

\* Vars.Set(g, text, set): a hook flag stores nothing and runs its action,
\* which for the help hook ends in ErrExit; a malformed text is an error and
\* changes nothing; a default (set = FALSE) does not replace an explicitly
\* assigned value; an explicit assignment of a list or map flag that already
\* holds an explicit value is added to it (the value is held in its rendered
\* form, the elements joined by ","); otherwise the flag's entry holds the
\* text.
VarsSet(vars_, g, text, set) ==
    IF g.Type = "HookT"
    THEN [vars |-> vars_, err |-> "ErrExit"]
    ELSE IF ~Coerces(g.Type, text)
    THEN [vars |-> vars_, err |-> "ErrInvalidValue"]
    ELSE IF ~set /\ g.Name \in DOMAIN vars_ /\ vars_[g.Name].set
    THEN [vars |-> vars_, err |-> ""]
    ELSE IF set /\ Accumulates(g.Type) /\ g.Name \in DOMAIN vars_ /\ vars_[g.Name].set
    THEN [vars |-> Put(vars_, g.Name, vars_[g.Name].val \o sComma \o text, TRUE),
          err |-> ""]
    ELSE [vars |-> Put(vars_, g.Name, text, set), err |-> ""]

\* PopulateFrom that hands its values to Vars.Set as explicit assignments.
RECURSIVE PopulateFromExplicit(_, _, _, _, _)
PopulateFromExplicit(flags, i, all, overwrite, vars_) ==
    IF i > Len(flags) THEN [vars |-> vars_, err |-> ""]
    ELSE LET g == flags[i]
             cleared == IF g.Name \in DOMAIN vars_ /\ overwrite
                        THEN Delete(vars_, g.Name) ELSE vars_
         IN IF g.Type = "HookT" \/ (g.Def = Nil /\ ~all)
            THEN PopulateFromExplicit(flags, i + 1, all, overwrite, cleared)
            ELSE LET value == IF g.Def # Nil THEN Expand(g.Def) ELSE <<>>
                     r == VarsSet(cleared, g, value, TRUE)
                 IN IF r.err # "" THEN [vars |-> r.vars, err |-> r.err]
                    ELSE PopulateFromExplicit(flags, i + 1, all, overwrite, r.vars)

\* Command.Populate.
RECURSIVE PopulateFrom(_, _, _, _, _)
PopulateFrom(flags, i, all, overwrite, vars_) ==
    IF i > Len(flags) THEN [vars |-> vars_, err |-> ""]
    ELSE LET g == flags[i]
             cleared == IF g.Name \in DOMAIN vars_ /\ overwrite
                        THEN Delete(vars_, g.Name) ELSE vars_
         IN IF g.Type = "HookT" \/ (g.Def = Nil /\ ~all)
            THEN PopulateFrom(flags, i + 1, all, overwrite, cleared)
            ELSE LET value == IF g.Def # Nil THEN Expand(g.Def) ELSE <<>>
                     r == VarsSet(cleared, g, value, FALSE)
                 IN IF r.err # "" THEN [vars |-> r.vars, err |-> r.err]
                    ELSE PopulateFrom(flags, i + 1, all, overwrite, r.vars)

\* Populate that populates the flags of the root only.
PopulateRootOnly(c, all, overwrite, vars_) ==
    IF Tree[c].Parent = NoCmd
    THEN PopulateFrom(Tree[c].Flags, 1, all, overwrite, vars_)
    ELSE [vars |-> vars_, err |-> ""]

Populate(c, all, overwrite, vars_) ==
    PopulateFrom(Tree[c].Flags, 1, all, overwrite, vars_)

(***************************************************************************)
(* Command.Suggest.                                                        *)
(***************************************************************************)
\* SuggestNames that leaves out the suggested names.
SuggestNamesNoSuggested(c) == <<Tree[c].Name>> \o Tree[c].Aliases

\* append(prepend(c.Aliases, c.Name), c.Suggested...)
SuggestNames(c) == <<Tree[c].Name>> \o Tree[c].Aliases \o Tree[c].Suggested

\* The threshold Suggest uses on command c.
MinDistOf(c) == IF Tree[c].MinDist <= 0 THEN DefaultMinDist ELSE Tree[c].MinDist

\* Near with a strict comparison.
NearStrict(k, arg, minDist) ==
    \E i \in DOMAIN SuggestNames(k) :
        Ldist(arg, ToLower(SuggestNames(k)[i])) < minDist

\* Whether child k has a name within the threshold of the folded token.
Near(k, arg, minDist) ==
    \E i \in DOMAIN SuggestNames(k) :
        Ldist(arg, ToLower(SuggestNames(k)[i])) <= minDist

\* SuggestFrom that keeps the last child within the threshold.
RECURSIVE SuggestFromLast(_, _, _, _)
SuggestFromLast(kids, arg, minDist, i) ==
    IF i > Len(kids) THEN NoCmd
    ELSE LET later == SuggestFromLast(kids, arg, minDist, i + 1)
         IN IF later # NoCmd THEN later
            ELSE IF Near(kids[i], arg, minDist) THEN kids[i]
            ELSE NoCmd

RECURSIVE SuggestFrom(_, _, _, _)
SuggestFrom(kids, arg, minDist, i) ==
    IF i > Len(kids) THEN NoCmd
    ELSE IF Near(kids[i], arg, minDist) THEN kids[i]
    ELSE SuggestFrom(kids, arg, minDist, i + 1)

NoError == [kind |-> "nil", cmd |-> NoCmd]

\* Suggest(args...): nil without a token, a SuggestionError naming a child,
\* or the unknown-command error.
Suggest(c, a) ==
    IF a = <<>> THEN NoError
    ELSE LET k == SuggestFrom(Tree[c].Commands, ToLower(a[1]), MinDistOf(c), 1)
         IN IF k # NoCmd THEN [kind |-> "SuggestionError", cmd |-> k]
            ELSE [kind |-> "ErrUnknownCommand", cmd |-> NoCmd]

(***************************************************************************)
(* The token scanner.                                                      *)
(***************************************************************************)
\* What parseLong and parseShort hand back: the remaining tokens, the error
\* ("" for nil), the vars as they leave them, and the Vars.Set calls made.
Result(args_, err_, vars_, sets_) ==
    [args |-> args_, err |-> err_, vars |-> vars_, sets |-> sets_]

\* The text a no-argument flag gets when the token gives none.
NoArgValue(g) == toBoolString(g.Def)

\* LongValue that takes an empty right-hand side of "=" for no value.
LongValueEmptyIsMissing(g, cut, rest) ==
    IF cut.found /\ Len(cut.after) # 0
    THEN [value |-> cut.after, args |-> rest, err |-> ""]
    ELSE IF g.NoArg THEN [value |-> NoArgValue(g), args |-> rest, err |-> ""]
    ELSE IF Len(rest) # 0 THEN [value |-> rest[1], args |-> Tail(rest), err |-> ""]
    ELSE [value |-> <<>>, args |-> <<>>, err |-> "ErrMissingArgument"]

\* LongValue that assigns the empty string when no token is left.
LongValueEmptyOnMissing(g, cut, rest) ==
    IF cut.found THEN [value |-> cut.after, args |-> rest, err |-> ""]
    ELSE IF g.NoArg THEN [value |-> NoArgValue(g), args |-> rest, err |-> ""]
    ELSE IF Len(rest) # 0 THEN [value |-> rest[1], args |-> Tail(rest), err |-> ""]
    ELSE [value |-> <<>>, args |-> <<>>, err |-> ""]

\* LongValue that takes the next token only when it does not look like a
\* flag or the terminator.
LongValueSkipsDashed(g, cut, rest) ==
    IF cut.found THEN [value |-> cut.after, args |-> rest, err |-> ""]
    ELSE IF g.NoArg THEN [value |-> NoArgValue(g), args |-> rest, err |-> ""]
    ELSE IF Len(rest) # 0 /\ ~HasPrefix(rest[1], sDash)
    THEN [value |-> rest[1], args |-> Tail(rest), err |-> ""]
    ELSE [value |-> <<>>, args |-> <<>>, err |-> "ErrMissingArgument"]

\* parseLong's switch: the value for a flag that was found, and the tokens
\* left after it, or the missing-argument error.
LongValue(g, cut, rest) ==
    IF cut.found THEN [value |-> cut.after, args |-> rest, err |-> ""]
    ELSE IF g.NoArg THEN [value |-> NoArgValue(g), args |-> rest, err |-> ""]
    ELSE IF Len(rest) # 0 THEN [value |-> rest[1], args |-> Tail(rest), err |-> ""]
    ELSE [value |-> <<>>, args |-> <<>>, err |-> "ErrMissingArgument"]

\* parseLong(cmd, s, args, vars).
parseLong(c, tok, rest, vars_) ==
    LET cut == Cut(TrimPrefix(tok, sDashDash))
        ref == LongFlag(c, cut.before)
    IN IF ref = NoFlag THEN Result(<<>>, "ErrUnknownFlag", vars_, <<>>)
       ELSE LET g == FlagAt(ref)
                lv == LongValue(g, cut, rest)
                r == VarsSet(vars_, g, lv.value, TRUE)
                call == [flag |-> ref, value |-> lv.value]
            IN IF lv.err # "" THEN Result(<<>>, lv.err, vars_, <<>>)
               ELSE IF r.err # "" THEN Result(<<>>, r.err, r.vars, <<call>>)
               ELSE Result(lv.args, "", r.vars, <<call>>)

\* ShortNoArg that ends the cluster after the first flag.
ShortNoArgStops(g, runes) ==
    IF Index(runes, "=") = 1
    THEN [value |-> SliceFrom(runes, 2), next |-> <<>>]
    ELSE [value |-> NoArgValue(g), next |-> <<>>]

\* The no-argument case of parseShort: the value, and the runes the loop
\* goes on with after its v = v[1:].
ShortNoArg(g, runes) ==
    IF Index(runes, "=") = 1
    THEN [value |-> SliceFrom(runes, 2),
          next |-> Tail(SliceFrom(runes, Len(runes) - 1))]
    ELSE [value |-> NoArgValue(g), next |-> Tail(runes)]

\* ShortEmbedded that keeps the "=" in the value.
ShortEmbeddedKeepsEq(runes) == SliceFrom(runes, 1)

\* The embedded value of an argument-taking short flag: -a=, -a=v, -av.
ShortEmbedded(runes) ==
    IF Index(runes, "=") = 1 THEN SliceFrom(Tail(runes), 1)
    ELSE SliceFrom(runes, 1)

\* parseShort's loop over the runes after the dash.
RECURSIVE parseShortFrom(_, _, _, _, _)
parseShortFrom(c, runes, rest, vars_, sets_) ==
    IF Len(runes) = 0 THEN Result(rest, "", vars_, sets_)
    ELSE LET ref == ShortFlag(c, <<runes[1]>>)
             n == Len(runes) - 1
         IN IF ref = NoFlag THEN Result(<<>>, "ErrUnknownFlag", vars_, sets_)
            ELSE LET g == FlagAt(ref)
                 IN IF g.NoArg
                    THEN LET na == ShortNoArg(g, runes)
                             r == VarsSet(vars_, g, na.value, TRUE)
                             log == Append(sets_, [flag |-> ref, value |-> na.value])
                         IN IF r.err # "" THEN Result(<<>>, r.err, r.vars, log)
                            ELSE parseShortFrom(c, na.next, rest, r.vars, log)
                    ELSE IF n = 0 /\ Len(rest) = 0
                    THEN Result(<<>>, "ErrMissingArgument", vars_, sets_)
                    ELSE LET value == IF n # 0 THEN ShortEmbedded(runes) ELSE rest[1]
                             left == IF n # 0 THEN rest ELSE Tail(rest)
                             r == VarsSet(vars_, g, value, TRUE)
                             log == Append(sets_, [flag |-> ref, value |-> value])
                         IN IF r.err # "" THEN Result(<<>>, r.err, r.vars, log)
                            ELSE Result(left, "", r.vars, log)

\* parseShort(cmd, s, args, vars).
parseShort(c, tok, rest, vars_) == parseShortFrom(c, Tail(tok), rest, vars_, <<>>)

\* parse's classification of the leading token.
IsBare(tok) == Len(tok) = 0 \/ Len(tok) = 1 \/ tok[1] # "-"

IsTerminator(tok) == ~IsBare(tok) /\ tok = sDashDash

IsLong(tok) == ~IsBare(tok) /\ tok # sDashDash /\ tok[2] = "-"

IsShort(tok) == ~IsBare(tok) /\ tok # sDashDash /\ tok[2] # "-"

\* SubCommand without the len(v) == 0 guard.
SubCommandAlways(c, pos, tok) == Command(c, tok)

\* The sub-command a bare token resolves to: looked up only while no
\* positional has been collected.
SubCommand(c, pos, tok) == IF Len(pos) = 0 THEN Command(c, tok) ELSE NoCmd

\* TerminatorArgs that drops the positionals collected before the terminator.
TerminatorArgsRestOnly(pos, rest) == rest

\* What parse returns at the terminator.
TerminatorArgs(pos, rest) == pos \o rest

(***************************************************************************)
(* Argument vectors.                                                       *)
(***************************************************************************)
Long(name) == sDashDash \o name

Short(runes) == sDash \o runes

Tokens ==
    { sPush, sPl, sPul, sZzz, sX, sDashDash,
      Long(sOut), Long(sOut) \o sEq, Long(sOut) \o <<"=", "a", "=", "b">>,
      Long(sAll), Long(sAll) \o <<"=", "x">>, Long(sNo),
      Short(<<"a", "b", "c">>), Short(<<"o">>), Short(<<"o", "a", "b">>),
      Short(<<"o", "=", "x">>), Short(<<"a", "o">>), Short(<<"a", "=", "x">>),
      Short(<<"c", "=", "x">>), Short(<<"y">>) }

RECURSIVE SeqsUpTo(_, _)
SeqsUpTo(S, n) ==
    IF n = 0 THEN {<<>>}
    ELSE LET shorter == SeqsUpTo(S, n - 1)
         IN shorter \cup {Append(q, t) : q \in {x \in shorter : Len(x) = n - 1}, t \in S}

ArgVectors == SeqsUpTo(Tokens, MaxArgs)

(***************************************************************************)
(* State.                                                                  *)
(*   pc    where the Parse invocation stands: "entry", "scan" (parse's     *)
(*         loop), "done" (returned), "end" (Suggest has been called)       *)
(*   args  parse's args: the tokens not yet consumed                       *)
(*   cmd   parse's cmd: the cursor command                                 *)
(*   v     parse's v: the positionals collected                            *)
(*   s     parse's s: the token last taken from args                       *)
(*   vars  the Vars handed to Parse                                        *)
(*   sets  the Vars.Set calls the flag token s made, in order              *)
(*   ret   what Parse returned: command, positionals, error                *)
(*   sug   what Command.Suggest returned                                   *)
(* For Command.Comps:                                                      *)
(*   given the args given to Comps; the last is the token completions are  *)
(*         asked for                                                       *)
(*   comps what Comps returned: candidates, directive, error               *)
(* For FlagSet.Var and Command.Flag on the flag set built:                 *)
(*   fs    the FlagSet's Flags                                             *)
(*   got   the last Command.Flag call: name, short, and the index found    *)
(* For Command.Lookup:                                                     *)
(*   names the names given to Lookup                                       *)
(*   walk  Lookup's ret and the number of names it has taken               *)
(* For Command.Populate called on its own:                                 *)
(*   calls the Populate calls made so far: all, overwrite, the error, and  *)
(*         the vars before and after the call                              *)
(* For Command.Validate:                                                   *)
(*   arity the minimum, maximum and values given to the Args option of the *)
(*         command                                                         *)
(*   verr  the error Validate returned                                     *)
(* For two Parse invocations running at once on the tree:                  *)
(*   procs each invocation's own state: where it stands, its args, cursor, *)
(*         positionals, Vars, and what it returned                         *)
(*   helpContext  the Context field of the root's CommandHelp: the         *)
(*         invocation whose context was stored last                        *)
(***************************************************************************)
VARIABLES pc, args, cmd, v, s, vars, sets, ret, sug,
          given, comps, fs, got, names, walk, calls,
          arity, verr, procs, helpContext

vars_all == <<pc, args, cmd, v, s, vars, sets, ret, sug,
              given, comps, fs, got, names, walk, calls,
              arity, verr, procs, helpContext>>

comp_vars == <<given, comps>>

flag_vars == <<fs, got>>

lookup_vars == <<names, walk>>

populate_vars == <<calls>>

valid_vars == <<arity, verr>>

race_vars == <<procs, helpContext>>

parse_vars == <<args, cmd, v, s, vars, sets, ret, sug>>

NoComps == [list |-> <<>>, dir |-> "", err |-> ""]

NoGot == [name |-> <<>>, short |-> FALSE, idx |-> 0]

NoWalk == [ret |-> NoCmd, i |-> 0]

\* The variables of an entry point that is not in use.
IdleComps == given = <<>> /\ comps = NoComps

IdleFlags == fs = <<>> /\ got = NoGot

IdleLookup == names = <<>> /\ walk = NoWalk

IdlePopulate == calls = <<>>

NoArity == [minimum |-> 0, maximum |-> 0, values |-> <<>>]

IdleValidate == arity = NoArity /\ verr = ""

\* No invocation's context.
NoCtx == 0

IdleRace == procs = <<>> /\ helpContext = NoCtx

NoRet == [cmd |-> NoCmd, args |-> <<>>, err |-> ""]

Failed(err_) == [cmd |-> NoCmd, args |-> <<>>, err |-> err_]

Init ==
    /\ pc = "entry"
    /\ args \in ArgVectors
    /\ cmd = Root
    /\ v = <<>>
    /\ s = <<>>
    /\ vars = NoVars
    /\ sets = <<>>
    /\ ret = NoRet
    /\ sug = NoError
    /\ IdleComps
    /\ IdleFlags
    /\ IdleLookup
    /\ IdlePopulate
    /\ IdleValidate
    /\ IdleRace

\* Parse: the root check, the root's defaults, the empty argument vector.
ParseEntry ==
    /\ pc = "entry"
    /\ LET r == Populate(cmd, FALSE, FALSE, vars)
       IN IF Tree[cmd].Parent # NoCmd
          THEN /\ pc' = "done"
               /\ ret' = Failed("ErrCanOnlyBeUsedWithRootCommand")
               /\ vars' = vars
          ELSE IF r.err # ""
          THEN /\ pc' = "done"
               /\ ret' = Failed(r.err)
               /\ vars' = r.vars
          ELSE IF Len(args) = 0
          THEN /\ pc' = "done"
               /\ ret' = [cmd |-> cmd, args |-> <<>>, err |-> ""]
               /\ vars' = r.vars
          ELSE /\ pc' = "scan"
               /\ ret' = ret
               /\ vars' = r.vars
    /\ UNCHANGED <<args, cmd, v, s, sets, sug>>
    /\ UNCHANGED <<comp_vars, flag_vars, lookup_vars, populate_vars,
                 valid_vars, race_vars>>

\* parse, case n == 0, n == 1, s[0] != '-': a sub-command or a positional.
ScanBare ==
    /\ pc = "scan"
    /\ Len(args) # 0
    /\ IsBare(Head(args))
    /\ s' = Head(args)
    /\ args' = Tail(args)
    /\ sets' = <<>>
    /\ LET c == SubCommand(cmd, v, Head(args))
           r == Populate(c, FALSE, FALSE, vars)
       IN IF c = NoCmd
          THEN /\ v' = Append(v, Head(args))
               /\ UNCHANGED <<pc, cmd, vars, ret>>
          ELSE IF r.err # ""
          THEN /\ pc' = "done"
               /\ ret' = Failed(r.err)
               /\ vars' = r.vars
               /\ UNCHANGED <<cmd, v>>
          ELSE /\ cmd' = c
               /\ vars' = r.vars
               /\ UNCHANGED <<pc, v, ret>>
    /\ UNCHANGED sug
    /\ UNCHANGED <<comp_vars, flag_vars, lookup_vars, populate_vars,
                 valid_vars, race_vars>>

\* parse, case s == "--": stop scanning.
ScanTerminator ==
    /\ pc = "scan"
    /\ Len(args) # 0
    /\ IsTerminator(Head(args))
    /\ s' = Head(args)
    /\ args' = Tail(args)
    /\ sets' = <<>>
    /\ pc' = "done"
    /\ ret' = [cmd |-> cmd, args |-> TerminatorArgs(v, Tail(args)), err |-> ""]
    /\ UNCHANGED <<cmd, v, vars, sug>>
    /\ UNCHANGED <<comp_vars, flag_vars, lookup_vars, populate_vars,
                 valid_vars, race_vars>>

\* The rest of a flag step, given what parseLong or parseShort handed back.
FlagStep(r) ==
    /\ s' = Head(args)
    /\ sets' = r.sets
    /\ vars' = r.vars
    /\ args' = r.args
    /\ IF r.err # ""
       THEN /\ pc' = "done"
            /\ ret' = Failed(r.err)
       ELSE UNCHANGED <<pc, ret>>
    /\ UNCHANGED <<cmd, v, sug>>
    /\ UNCHANGED <<comp_vars, flag_vars, lookup_vars, populate_vars,
                 valid_vars, race_vars>>

\* parse, case s[1] == '-': a long flag.
ScanLong ==
    /\ pc = "scan"
    /\ Len(args) # 0
    /\ IsLong(Head(args))
    /\ FlagStep(parseLong(cmd, Head(args), Tail(args), vars))

\* parse, default case: a short flag cluster.
ScanShort ==
    /\ pc = "scan"
    /\ Len(args) # 0
    /\ IsShort(Head(args))
    /\ FlagStep(parseShort(cmd, Head(args), Tail(args), vars))

\* parse's loop ends: no token is left.
ScanEnd ==
    /\ pc = "scan"
    /\ Len(args) = 0
    /\ pc' = "done"
    /\ ret' = [cmd |-> cmd, args |-> v, err |-> ""]
    /\ UNCHANGED <<args, cmd, v, s, vars, sets, sug>>
    /\ UNCHANGED <<comp_vars, flag_vars, lookup_vars, populate_vars,
                 valid_vars, race_vars>>

\* Command.Suggest on the command Parse resolved, with the positionals.
SuggestCall ==
    /\ pc = "done"
    /\ ret.err = ""
    /\ sug' = Suggest(ret.cmd, ret.args)
    /\ pc' = "end"
    /\ UNCHANGED <<args, cmd, v, s, vars, sets, ret>>
    /\ UNCHANGED <<comp_vars, flag_vars, lookup_vars, populate_vars,
                 valid_vars, race_vars>>

Next ==
    \/ ParseEntry
    \/ ScanBare
    \/ ScanTerminator
    \/ ScanLong
    \/ ScanShort
    \/ ScanEnd
    \/ SuggestCall

Spec == Init /\ [][Next]_vars_all

\* The parse variables of an entry point that does not parse.
IdleParse ==
    /\ args = <<>>
    /\ v = <<>>
    /\ s = <<>>
    /\ vars = NoVars
    /\ sets = <<>>
    /\ ret = NoRet
    /\ sug = NoError

(***************************************************************************)
(* Command.Comps(args...) on the root: Parse over all tokens but the last, *)
(* then the candidates for the last token.                                 *)
(***************************************************************************)
\* One pass of CompCommands over the children with addComp: a child whose
\* name is already among the candidates is passed over, a child that
\* matches is added.
ExactOrFold(k, name) ==
    \/ name = Tree[k].Name
    \/ \E i \in DOMAIN Tree[k].Aliases : name = Tree[k].Aliases[i]
    \/ ToLower(Tree[k].Name) = ToLower(name)
    \/ \E i \in DOMAIN Tree[k].Aliases : ToLower(name) = ToLower(Tree[k].Aliases[i])

PrefixMatch(k, name) ==
    \/ HasPrefix(ToLower(Tree[k].Name), ToLower(name))
    \/ \E i \in DOMAIN Tree[k].Aliases :
          HasPrefix(ToLower(Tree[k].Aliases[i]), ToLower(name))

DistMatch(k, name, minDist) ==
    \/ Ldist(ToLower(Tree[k].Name), ToLower(name)) <= minDist
    \/ \E i \in DOMAIN Tree[k].Aliases :
          Ldist(ToLower(Tree[k].Aliases[i]), ToLower(name)) <= minDist

PassMatch(pass, k, name, minDist) ==
    CASE pass = "exact" -> ExactOrFold(k, name)
      [] pass = "prefix" -> PrefixMatch(k, name)
      [] OTHER -> DistMatch(k, name, minDist)

RECURSIVE CompPass(_, _, _, _, _, _)
CompPass(kids, i, pass, name, minDist, list) ==
    IF i > Len(kids) THEN list
    ELSE IF Contains(list, Tree[kids[i]].Name)
    THEN CompPass(kids, i + 1, pass, name, minDist, list)
    ELSE IF PassMatch(pass, kids[i], name, minDist)
    THEN CompPass(kids, i + 1, pass, name, minDist, Append(list, Tree[kids[i]].Name))
    ELSE CompPass(kids, i + 1, pass, name, minDist, list)

\* Command.CompCommands(name): the names of the candidates, in order.
CompCommands(c, name) ==
    LET kids == Tree[c].Commands
        exact == CompPass(kids, 1, "exact", name, 0, <<>>)
        prefix == CompPass(kids, 1, "prefix", name, 0, exact)
    IN CompPass(kids, 1, "dist", name, MinDistOf(c), prefix)

\* Command.CompFlags: no candidates.
CompFlags(c, name, parents, short) == <<>>

\* prev(s, n).
prev(strs, n) == IF n # 0 THEN strs[n] ELSE <<>>

\* strings.Contains(str, "=").
ContainsEq(str) == Index(str, "=") >= 0

\* The switch of Comps that builds the completions for arg on command c.
CompsSwitch(c, prev_, arg) ==
    IF HasPrefix(arg, sDashDash) THEN CompFlags(c, SliceFrom(arg, 2), TRUE, FALSE)
    ELSE IF HasPrefix(arg, sDash) THEN CompFlags(c, SliceFrom(arg, 1), TRUE, TRUE)
    ELSE IF HasPrefix(prev_, sDash)
    THEN LET ref == Flag(c, prev_, TRUE, Len(prev_) = 2)
         IN IF ref = NoFlag \/ FlagAt(ref).NoArg \/ ContainsEq(prev_)
            THEN CompCommands(c, arg)
            ELSE <<>>
    ELSE CompCommands(c, arg)

\* CompsAfterParse that builds completions also when Parse failed.
CompsAfterParseAnyway(c, strs, r) ==
    [list |-> CompsSwitch(c, prev(strs, Len(strs)), strs[Len(strs)]),
     dir |-> "CompNoFileComp", err |-> ""]

\* Comps from Parse's return on: the error of Parse with CompError, or the
\* completions built on the receiver c.
CompsAfterParse(c, strs, r) ==
    IF r.err # "" THEN [list |-> <<>>, dir |-> "CompError", err |-> r.err]
    ELSE [list |-> CompsSwitch(c, prev(strs, Len(strs)), strs[Len(strs)]),
          dir |-> "CompNoFileComp", err |-> ""]

CompTokens ==
    { sPush, sPu, sOr, sDashDash, Long(sOut), Long(<<"o">>), Short(<<"o">>),
      Long(sNo), Long(sHelp), Long(sOut) \o <<"=", "x">> }

CompVectors == SeqsUpTo(CompTokens, MaxArgs)

InitComps ==
    /\ pc = "comps"
    /\ given \in CompVectors
    /\ comps = NoComps
    /\ cmd = Root
    /\ IdleParse
    /\ IdleFlags
    /\ IdleLookup
    /\ IdlePopulate
    /\ IdleValidate
    /\ IdleRace

\* Comps up to its call of Parse: no args is an error, else Parse is
\* called on the receiver with args[:n-1] and fresh vars.
CompsEntry ==
    /\ pc = "comps"
    /\ IF Len(given) = 0
       THEN /\ comps' = [list |-> <<>>, dir |-> "CompError", err |-> "ErrInvalidArgCount"]
            /\ pc' = "compsdone"
            /\ args' = args
       ELSE /\ comps' = comps
            /\ pc' = "entry"
            /\ args' = SubSeq(given, 1, Len(given) - 1)
    /\ UNCHANGED <<given, cmd, v, s, vars, sets, ret, sug>>
    /\ UNCHANGED <<flag_vars, lookup_vars, populate_vars,
                 valid_vars, race_vars>>

\* Comps after Parse has returned.
CompsBuild ==
    /\ pc = "done"
    /\ comps' = CompsAfterParse(Root, given, ret)
    /\ pc' = "compsdone"
    /\ UNCHANGED <<given, parse_vars, flag_vars, lookup_vars, populate_vars,
                 valid_vars, race_vars>>

NextComps ==
    \/ CompsEntry
    \/ ParseEntry
    \/ ScanBare
    \/ ScanTerminator
    \/ ScanLong
    \/ ScanShort
    \/ ScanEnd
    \/ CompsBuild

SpecComps == InitComps /\ [][NextComps]_vars_all

(***************************************************************************)
(* Command.Lookup(names...) on any command of the tree, one action per     *)
(* iteration of its loop.                                                  *)
(***************************************************************************)
\* Longest list of names handed to Lookup.
MaxNames == 3

LookupNames == {sPush, sPull, sPl, sOrg, sZzz, sPul}

NameVectors == SeqsUpTo(LookupNames, MaxNames)

InitLookup ==
    /\ pc = "lookup"
    /\ cmd \in CmdIds
    /\ names \in NameVectors
    /\ walk = [ret |-> cmd, i |-> 0]
    /\ IdleParse
    /\ IdleComps
    /\ IdleFlags
    /\ IdlePopulate
    /\ IdleValidate
    /\ IdleRace

\* The name the loop is at resolves on ret: ret = c; continue.
LookupStep ==
    /\ pc = "lookup"
    /\ walk.i < Len(names)
    /\ Command(walk.ret, names[walk.i + 1]) # NoCmd
    /\ walk' = [ret |-> Command(walk.ret, names[walk.i + 1]), i |-> walk.i + 1]
    /\ UNCHANGED <<pc, names, parse_vars, comp_vars, flag_vars, populate_vars,
                 valid_vars, race_vars>>

\* The loop ends, at the end of names or at the break: return ret.
LookupReturn ==
    /\ pc = "lookup"
    /\ \/ walk.i = Len(names)
       \/ /\ walk.i < Len(names)
          /\ Command(walk.ret, names[walk.i + 1]) = NoCmd
    /\ pc' = "looked"
    /\ UNCHANGED <<names, walk, parse_vars, comp_vars, flag_vars, populate_vars,
                 valid_vars, race_vars>>

NextLookup == LookupStep \/ LookupReturn

SpecLookup == InitLookup /\ [][NextLookup]_vars_all

(***************************************************************************)
(* FlagSet.Var and its typed helpers building a flag set, and Command.Flag *)
(* (parents = false) on a command that has that flag set.                  *)
(***************************************************************************)
\* Most flags added to one FlagSet.
MaxFlags == 3

\* No Short option among the options.
NoShort == Nil

\* The long names, Short option arguments and helpers of the Var calls.
VarNames == {sOut, sAll, <<>>}

VarShorts == {NoShort, <<"o">>, <<"a">>, <<"o", "o">>, <<>>}

VarHelpers == {"String", "Hook", "HookNil", "NoArg", "Special"}

\* The Special value NewHelpFor looks for.
sHookHelp == <<"hook:help">>

\* The Short option: a name that is not one character long is refused.
ShortOption(short) ==
    IF short = NoShort THEN [short |-> <<>>, err |-> ""]
    ELSE IF Len(short) # 1 THEN [short |-> <<>>, err |-> "ErrInvalidShortName"]
    ELSE [short |-> short, err |-> ""]

\* The flag NewFlag has after Apply, by the helper that called Var: String
\* (StringT), Hook(name, desc, f) (HookT, NoArg(true, ""), Default(f)),
\* HookNil (Hook with a nil f), NoArg (Var with the option NoArg(true), which
\* sets NoArg only), Special (Var with Special("hook:help")).
FlagOptions(name, short, helper) ==
    CASE helper = "Hook" -> NewFlagRec(name, short, "HookT", HelpHook, TRUE, <<>>)
      [] helper = "HookNil" -> NewFlagRec(name, short, "HookT", Nil, TRUE, <<>>)
      [] helper = "NoArg" -> NewFlagRec(name, short, "StringT", Nil, TRUE, Nil)
      [] helper = "Special" ->
            [NewFlagRec(name, short, "StringT", Nil, FALSE, Nil)
                EXCEPT !.Special = sHookHelp]
      [] OTHER -> NewFlagRec(name, short, "StringT", Nil, FALSE, Nil)

\* NewFlag without the NoArgDef and Def checks.
NewFlagNameOnly(name, short, helper) ==
    LET so == ShortOption(short)
        g == FlagOptions(name, so.short, helper)
    IN IF so.err # "" THEN [flag |-> g, err |-> so.err]
       ELSE IF g.Name = <<>> THEN [flag |-> g, err |-> "ErrInvalidFlagName"]
       ELSE [flag |-> g, err |-> ""]

\* NewFlag(name, usage, opts...): the options applied, then the checks.
NewFlag(name, short, helper) ==
    LET so == ShortOption(short)
        g == FlagOptions(name, so.short, helper)
    IN IF so.err # "" THEN [flag |-> g, err |-> so.err]
       ELSE IF g.Name = <<>> THEN [flag |-> g, err |-> "ErrInvalidFlagName"]
       ELSE IF g.NoArg /\ g.NoArgDef = Nil THEN [flag |-> g, err |-> "ErrInvalidValue"]
       ELSE IF g.Type = "HookT" /\ g.Def = Nil THEN [flag |-> g, err |-> "ErrInvalidValue"]
       ELSE [flag |-> g, err |-> ""]

\* Command.Flag(name, false, short) on a command with these flags: the
\* index of the flag returned, 0 for nil.
FlagIn(flags, name, short) == FlagIndexFrom(flags, name, short, 1)

\* The names Command.Flag is asked for.
FlagQueries == {sOut, sAll, <<"o">>, <<"a">>}

InitFlags ==
    /\ pc = "flags"
    /\ cmd = Root
    /\ fs = <<>>
    /\ got = NoGot
    /\ IdleParse
    /\ IdleComps
    /\ IdleLookup
    /\ IdlePopulate
    /\ IdleValidate
    /\ IdleRace

\* fs.Var(name, desc, opts...): panic on NewFlag's error, else append.
Var ==
    /\ pc = "flags"
    /\ Len(fs) < MaxFlags
    /\ \E name \in VarNames, short \in VarShorts, helper \in VarHelpers :
          LET r == NewFlag(name, short, helper)
          IN IF r.err # ""
             THEN /\ pc' = "panic"
                  /\ fs' = fs
             ELSE /\ pc' = pc
                  /\ fs' = Append(fs, r.flag)
    /\ UNCHANGED <<got, parse_vars, comp_vars, lookup_vars, populate_vars,
                 valid_vars, race_vars>>

\* cmd.Flag(name, false, short) once the flag set is built.
FlagCall ==
    /\ pc = "flags"
    /\ \E name \in FlagQueries, short \in BOOLEAN :
          got' = [name |-> name, short |-> short, idx |-> FlagIn(fs, name, short)]
    /\ pc' = "found"
    /\ UNCHANGED <<fs, parse_vars, comp_vars, lookup_vars, populate_vars,
                 valid_vars, race_vars>>

\* The first flag of the set whose Special is "hook:help", 0 when none.
RECURSIVE HelpFlagFrom(_, _)
HelpFlagFrom(flags, i) ==
    IF i > Len(flags) THEN 0
    ELSE IF flags[i].Special = sHookHelp THEN i
    ELSE HelpFlagFrom(flags, i + 1)

\* NewHelpFor(cmd) once the flag set is built: the flag marked "hook:help"
\* is rewritten into the help hook; without one, the help hook is added
\* with cmd.Flags.Hook.
NewHelpFor ==
    /\ pc = "flags"
    /\ LET i == HelpFlagFrom(fs, 1)
           r == NewFlag(sHelp, <<"h">>, "Hook")
       IN IF i # 0
          THEN /\ fs' = [fs EXCEPT ![i] = [@ EXCEPT !.Type = "HookT", !.Def = HelpHook,
                                                    !.NoArg = TRUE, !.NoArgDef = <<>>]]
               /\ pc' = "helped"
          ELSE IF r.err # ""
          THEN /\ pc' = "panic"
               /\ fs' = fs
          ELSE /\ fs' = Append(fs, r.flag)
               /\ pc' = "helped"
    /\ UNCHANGED <<got, parse_vars, comp_vars, lookup_vars, populate_vars,
                   valid_vars, race_vars>>

NextFlags == Var \/ FlagCall \/ NewHelpFor

SpecFlags == InitFlags /\ [][NextFlags]_vars_all

(***************************************************************************)
(* Command.Populate called on its own, on any command of the tree, with    *)
(* vars that may already hold entries.                                     *)
(***************************************************************************)
\* Most Populate calls in a row.
MaxCalls == 2

\* The entries vars may hold before the first call: a default or an
\* explicitly assigned text under a flag's name.
PopulateNames == {sOut, sAll, sTag, sHelp}

PopulateEntries == {[val |-> <<"z">>, set |-> FALSE], [val |-> <<"z">>, set |-> TRUE]}

VarsInputs == UNION {[S -> PopulateEntries] : S \in SUBSET PopulateNames}

InitPopulate ==
    /\ pc = "populate"
    /\ cmd \in CmdIds
    /\ vars \in VarsInputs
    /\ calls = <<>>
    /\ args = <<>>
    /\ v = <<>>
    /\ s = <<>>
    /\ sets = <<>>
    /\ ret = NoRet
    /\ sug = NoError
    /\ IdleComps
    /\ IdleFlags
    /\ IdleLookup
    /\ IdleValidate
    /\ IdleRace

\* cmd.Populate(ctx, all, overwrite, vars).
PopulateCall ==
    /\ pc = "populate"
    /\ Len(calls) < MaxCalls
    /\ \E all \in BOOLEAN, overwrite \in BOOLEAN :
          LET r == Populate(cmd, all, overwrite, vars)
          IN /\ vars' = r.vars
             /\ calls' = Append(calls, [all |-> all, overwrite |-> overwrite,
                                        err |-> r.err, before |-> vars,
                                        after |-> r.vars])
    /\ UNCHANGED <<pc, args, cmd, v, s, sets, ret, sug>>
    /\ UNCHANGED <<comp_vars, flag_vars, lookup_vars,
                 valid_vars, race_vars>>

NextPopulate == PopulateCall

SpecPopulate == InitPopulate /\ [][NextPopulate]_vars_all

(***************************************************************************)
(* Command.CompCommands(name) called on its own, on any command of the     *)
(* tree; given holds the name.                                             *)
(***************************************************************************)
\* The names CompCommands is asked to complete.
CompNames == {sPush, sPl, sPul, sPu, sOr, sUP, sUp, sZzz, sX, <<>>}

InitCompCommands ==
    /\ pc = "compcommands"
    /\ cmd \in CmdIds
    /\ given \in {<<name>> : name \in CompNames}
    /\ comps = NoComps
    /\ IdleParse
    /\ IdleFlags
    /\ IdleLookup
    /\ IdlePopulate
    /\ IdleValidate
    /\ IdleRace

\* cmd.CompCommands(name).
CompCommandsCall ==
    /\ pc = "compcommands"
    /\ comps' = [list |-> CompCommands(cmd, given[1]), dir |-> "CompNoFileComp",
                 err |-> ""]
    /\ pc' = "completed"
    /\ UNCHANGED <<given, parse_vars, flag_vars, lookup_vars, populate_vars,
                   valid_vars, race_vars>>

NextCompCommands == CompCommandsCall

SpecCompCommands == InitCompCommands /\ [][NextCompCommands]_vars_all

(***************************************************************************)
(* Two Parse invocations running at once on the same tree, each with its   *)
(* own args and Vars.  The root has had NewHelpFor applied: its Help is a  *)
(* *CommandHelp and its help flag runs the hook f, which calls             *)
(* cmd.HelpContext(ctx) - that is help.SetContext(ctx), a write of         *)
(* help.Context - and then help.WriteTo, which reads help.Context.  The    *)
(* invocations share no lock, so a read of help.Context may see the write  *)
(* of either invocation that has written.                                  *)
(***************************************************************************)
\* Most tokens in the argument vector of one of the two invocations.
MaxRaceArgs == 2

Parsers == {1, 2}

RaceTokens == {sPush, Long(sHelp), Long(sOut) \o <<"=", "x">>}

RaceVectors == SeqsUpTo(RaceTokens, MaxRaceArgs)

\* An invocation about to run: hooked says whether its hook has stored its
\* context in the help, saw which context its WriteTo read.
NewParser(strs) ==
    [pc |-> "entry", given |-> strs, args |-> strs, cmd |-> Root, v |-> <<>>,
     vars |-> NoVars, ret |-> NoRet, hooked |-> FALSE, saw |-> NoCtx]

\* Parse up to its call of parse.
ParserEntry(st) ==
    LET r == Populate(st.cmd, FALSE, FALSE, st.vars)
    IN IF Tree[st.cmd].Parent # NoCmd
       THEN [st EXCEPT !.pc = "done",
                       !.ret = Failed("ErrCanOnlyBeUsedWithRootCommand")]
       ELSE IF r.err # ""
       THEN [st EXCEPT !.pc = "done", !.ret = Failed(r.err), !.vars = r.vars]
       ELSE IF Len(st.args) = 0
       THEN [st EXCEPT !.pc = "done", !.vars = r.vars,
                       !.ret = [cmd |-> st.cmd, args |-> <<>>, err |-> ""]]
       ELSE [st EXCEPT !.pc = "scan", !.vars = r.vars]

\* One iteration of parse's loop, or its return when no token is left.  A
\* flag token that reaches the help hook enters the hook: the invocation
\* stands before SetContext.
ParserScan(st) ==
    IF Len(st.args) = 0
    THEN [st EXCEPT !.pc = "done",
                    !.ret = [cmd |-> st.cmd, args |-> st.v, err |-> ""]]
    ELSE LET tok == Head(st.args)
             rest == Tail(st.args)
         IN IF IsBare(tok)
            THEN LET c == SubCommand(st.cmd, st.v, tok)
                     r == Populate(c, FALSE, FALSE, st.vars)
                 IN IF c = NoCmd
                    THEN [st EXCEPT !.args = rest, !.v = Append(st.v, tok)]
                    ELSE IF r.err # ""
                    THEN [st EXCEPT !.args = rest, !.pc = "done",
                                    !.ret = Failed(r.err), !.vars = r.vars]
                    ELSE [st EXCEPT !.args = rest, !.cmd = c, !.vars = r.vars]
            ELSE IF IsTerminator(tok)
            THEN [st EXCEPT !.args = rest, !.pc = "done",
                            !.ret = [cmd |-> st.cmd,
                                     args |-> TerminatorArgs(st.v, rest),
                                     err |-> ""]]
            ELSE LET r == IF IsLong(tok)
                          THEN parseLong(st.cmd, tok, rest, st.vars)
                          ELSE parseShort(st.cmd, tok, rest, st.vars)
                 IN IF r.err = "ErrExit"
                    THEN [st EXCEPT !.args = r.args, !.vars = r.vars,
                                    !.pc = "setcontext"]
                    ELSE IF r.err # ""
                    THEN [st EXCEPT !.args = r.args, !.vars = r.vars,
                                    !.pc = "done", !.ret = Failed(r.err)]
                    ELSE [st EXCEPT !.args = r.args, !.vars = r.vars]

\* The contexts a read of help.Context by invocation p may return: its own,
\* stored before the read in program order, or that of another invocation
\* that has stored its own, there being no synchronisation between them.
Readable(p) == {p} \cup {q \in Parsers : procs[q].hooked}

InitRace ==
    /\ pc = "race"
    /\ procs \in [Parsers -> {NewParser(strs) : strs \in RaceVectors}]
    /\ helpContext = NoCtx
    /\ cmd = Root
    /\ IdleParse
    /\ IdleComps
    /\ IdleFlags
    /\ IdleLookup
    /\ IdlePopulate
    /\ IdleValidate

RaceFrame ==
    UNCHANGED <<pc, parse_vars, comp_vars, flag_vars, lookup_vars,
                populate_vars, valid_vars>>

RaceEntry(p) ==
    /\ procs[p].pc = "entry"
    /\ procs' = [procs EXCEPT ![p] = ParserEntry(@)]
    /\ UNCHANGED helpContext
    /\ RaceFrame

RaceScan(p) ==
    /\ procs[p].pc = "scan"
    /\ procs' = [procs EXCEPT ![p] = ParserScan(@)]
    /\ UNCHANGED helpContext
    /\ RaceFrame

\* f's cmd.HelpContext(ctx): cmd.Help is not nil, so SetContext stores ctx
\* in it.
HookSetContext(p) ==
    /\ procs[p].pc = "setcontext"
    /\ helpContext' = p
    /\ procs' = [procs EXCEPT ![p] = [@ EXCEPT !.pc = "writeto", !.hooked = TRUE]]
    /\ RaceFrame

\* f's help.WriteTo(ctx.Stdout), which reads help.Context for the defaults,
\* and f's return of ErrExit, with which Parse fails.
HookWriteTo(p) ==
    /\ procs[p].pc = "writeto"
    /\ \E c \in Readable(p) :
          procs' = [procs EXCEPT ![p] = [@ EXCEPT !.pc = "done", !.saw = c,
                                                 !.ret = Failed("ErrExit")]]
    /\ UNCHANGED helpContext
    /\ RaceFrame

NextRace ==
    \E p \in Parsers :
        \/ RaceEntry(p)
        \/ RaceScan(p)
        \/ HookSetContext(p)
        \/ HookWriteTo(p)

SpecRace == InitRace /\ [][NextRace]_vars_all

(***************************************************************************)
(* Command.Validate on a command whose Args holds the validator that the   *)
(* Args(minimum, maximum, values...) option builds.                        *)
(***************************************************************************)
\* Largest minimum and maximum given to Args; the smallest is 1 - MaxArity.
MaxArity == 3

ArityRange == (1 - MaxArity)..MaxArity

\* The first switch of the validator, case by case in the order written:
\* the count error it returns, "" when no case returns.
ArgsCount(minimum, maximum, n) ==
    CASE minimum < 0 /\ maximum < 0 -> ""
      [] minimum = 0 /\ maximum = 0 /\ n # 0 -> "ErrInvalidArgCount"
      [] minimum <= 0 /\ maximum < n -> "ErrInvalidArgCount"
      [] maximum <= 0 /\ n < minimum -> "ErrInvalidArgCount"
      [] 0 <= minimum /\ 1 <= maximum /\ (n < minimum \/ maximum < n)
            -> "ErrInvalidArgCount"
      [] OTHER -> ""

\* The allowed-values loop that follows the switch.
ArgsValues(values, strs) ==
    IF Len(values) # 0 /\ \E i \in DOMAIN strs : ~Contains(values, strs[i])
    THEN "ErrInvalidArgValue"
    ELSE ""

\* The validator Args builds, applied to strs.
ArgsFunc(a, strs) ==
    LET e == ArgsCount(a.minimum, a.maximum, Len(strs))
    IN IF e # "" THEN e ELSE ArgsValues(a.values, strs)

\* The positionals handed to Validate and the allowed values given to Args.
ValidateArgs == SeqsUpTo({sX, sZzz}, MaxArgs)

ArgsValueLists == {<<>>, <<sX>>}

InitValidate ==
    /\ pc = "validate"
    /\ cmd = Root
    /\ arity \in [minimum : ArityRange, maximum : ArityRange, values : ArgsValueLists]
    /\ verr = ""
    /\ args \in ValidateArgs
    /\ v = <<>>
    /\ s = <<>>
    /\ vars = NoVars
    /\ sets = <<>>
    /\ ret = NoRet
    /\ sug = NoError
    /\ IdleComps
    /\ IdleFlags
    /\ IdleLookup
    /\ IdlePopulate
    /\ IdleRace

\* cmd.Validate(args): the first error of cmd.Args' validators.
Validate ==
    /\ pc = "validate"
    /\ verr' = ArgsFunc(arity, args)
    /\ pc' = "validated"
    /\ UNCHANGED <<arity, parse_vars, comp_vars, flag_vars, lookup_vars,
                   populate_vars, race_vars>>

NextValidate == Validate

SpecValidate == InitValidate /\ [][NextValidate]_vars_all

(***************************************************************************)
(* Properties.                                                             *)
(***************************************************************************)
Scanning(tok) == pc = "scan" /\ Len(args) # 0 /\ Head(args) = tok

\* C1: once a bare token has been appended to the positional list, the
\* cursor command never changes again and every later bare token is appended
\* to the positional list, also when it names a child of the cursor.
C1_PositionalsEndSubCommands ==
    [][Len(v) > 0 =>
          /\ cmd' = cmd
          /\ (pc = "scan" /\ Len(args) # 0 /\ IsBare(Head(args)))
                => v' = Append(v, Head(args))]_vars_all

\* A child's name or alias sits in the positional list behind an earlier
\* positional.
C1_Witness ==
    \E i \in 2..Len(v) :
        \E k \in DOMAIN Tree[cmd].Commands :
            LET kid == Tree[Tree[cmd].Commands[k]]
            IN v[i] = kid.Name \/ Contains(kid.Aliases, v[i])

\* C2: at the token "--" Parse stops: it returns the cursor, and as
\* positionals those collected so far followed by every token after "--" as
\* written; nothing is assigned and nothing changes after that.
C2_TerminatorStopsScanning ==
    [][/\ Scanning(sDashDash) =>
            /\ pc' = "done"
            /\ ret' = [cmd |-> cmd, args |-> v \o Tail(args), err |-> ""]
            /\ vars' = vars
            /\ sets' = <<>>
       /\ (pc # "scan" /\ s = sDashDash) => UNCHANGED <<cmd, v, vars, ret>>]_vars_all

\* Parse has returned at a "--" that had a positional before it and a token
\* starting with a dash after it.
C2_Witness ==
    /\ pc = "done"
    /\ s = sDashDash
    /\ Len(v) > 0
    /\ Len(args) > 0
    /\ args[1] = Short(<<"y">>)
    /\ ret.args = v \o args

\* The flag a character of a short cluster resolves to at the cursor.
ShortRef(ch) == ShortFlag(cmd, <<ch>>)

IsNoArgRune(ch) == ShortRef(ch) # NoFlag /\ FlagAt(ShortRef(ch)).NoArg

IsArgRune(ch) == ShortRef(ch) # NoFlag /\ ~FlagAt(ShortRef(ch)).NoArg

\* The entry of the flag's long name is the same in vars' as in vars.
SameEntry(name) ==
    /\ (name \in DOMAIN vars') = (name \in DOMAIN vars)
    /\ name \in DOMAIN vars => vars'[name] = vars[name]

\* The flag's entry in vars' holds the text, explicitly assigned.
Assigned(ref, text) ==
    /\ FlagAt(ref).Name \in DOMAIN vars'
    /\ vars'[FlagAt(ref).Name] = [val |-> text, set |-> TRUE]

\* C3: a no-argument flag given without an explicit value (a token with no
\* "=") is assigned its NoArgDef, and the token consumes no following token.
C3_NoArgFlagGetsNoArgDef ==
    [][(pc = "scan" /\ Len(args) # 0 /\ ~IsBare(Head(args))
          /\ Index(Head(args), "=") < 0)
        => /\ \A i \in DOMAIN sets' :
                 FlagAt(sets'[i].flag).NoArg
                    => sets'[i].value = FlagAt(sets'[i].flag).NoArgDef
           /\ (pc' = "scan" /\ \A i \in DOMAIN sets' : FlagAt(sets'[i].flag).NoArg)
                 => args' = Tail(args)]_vars_all

\* C4: in a long flag token with "=", the name is the text before the first
\* "=" and the value handed to the flag is all the text after it, for any
\* kind of flag; the token consumes no following token.
C4_LongEqualsValue ==
    [][(pc = "scan" /\ Len(args) # 0 /\ IsLong(Head(args)))
        => \A k \in 3..Len(Head(args)) :
              (Head(args)[k] = "=" /\ \A j \in 3..(k - 1) : Head(args)[j] # "=")
              => LET ref == LongFlag(cmd, SubSeq(Head(args), 3, k - 1))
                     value == SubSeq(Head(args), k + 1, Len(Head(args)))
                 IN ref # NoFlag
                    => /\ sets' = <<[flag |-> ref, value |-> value]>>
                       /\ pc' = "scan" => (args' = Tail(args) /\ Assigned(ref, value))
                       /\ pc' # "scan" => ret'.err = "ErrInvalidValue"]_vars_all

\* "--out=" has assigned the empty string with a token still to scan.
C4_Witness ==
    /\ pc = "scan"
    /\ s = Long(sOut) \o sEq
    /\ Len(args) # 0
    /\ sOut \in DOMAIN vars
    /\ vars[sOut] = [val |-> <<>>, set |-> TRUE]

\* C5: an argument-taking flag with no embedded value that is the last
\* token (a long flag, or the last character of a short cluster reached
\* through no-argument flags) makes Parse fail with the missing-argument
\* error, and the flag's entry in vars is left as it was.
C5_MissingArgument ==
    [][(pc = "scan" /\ Len(args) = 1 /\ ~IsBare(Head(args))
          /\ Head(args) # sDashDash)
        => LET tok == Head(args)
               runes == Tail(tok)
               n == Len(runes)
               lref == LongFlag(cmd, SliceFrom(tok, 2))
           IN /\ (IsLong(tok) /\ lref # NoFlag /\ ~FlagAt(lref).NoArg)
                   => /\ pc' = "done"
                      /\ ret' = Failed("ErrMissingArgument")
                      /\ sets' = <<>>
                      /\ vars' = vars
              /\ (IsShort(tok) /\ IsArgRune(runes[n])
                    /\ \A j \in 1..(n - 1) : IsNoArgRune(runes[j]))
                   => /\ pc' = "done"
                      /\ ret' = Failed("ErrMissingArgument")
                      /\ \A i \in DOMAIN sets' : sets'[i].flag # ShortRef(runes[n])
                      /\ SameEntry(FlagAt(ShortRef(runes[n])).Name)]_vars_all

\* Parse has failed at a trailing "--out"; out still holds its default.
C5_Witness ==
    /\ pc = "done"
    /\ s = Long(sOut)
    /\ ret = Failed("ErrMissingArgument")
    /\ vars[sOut] = [val |-> <<"r">>, set |-> FALSE]

\* C6: a short cluster of no-argument flags assigns every flag of the
\* cluster, in the order written, adds nothing to the positionals and
\* consumes no token after it.
C6_CombinedShortFlags ==
    [][(pc = "scan" /\ Len(args) # 0 /\ IsShort(Head(args))
          /\ \A j \in 2..Len(Head(args)) : IsNoArgRune(Head(args)[j]))
        => LET runes == Tail(Head(args))
           IN /\ Len(sets') = Len(runes)
              /\ \A j \in DOMAIN runes :
                    /\ sets'[j].flag = ShortRef(runes[j])
                    /\ FlagAt(ShortRef(runes[j])).Name \in DOMAIN vars'
                    /\ vars'[FlagAt(ShortRef(runes[j])).Name].set
              /\ pc' = "scan"
              /\ args' = Tail(args)
              /\ v' = v]_vars_all

\* "-abc" has assigned a, b and c in that order and left the next token.
C6_Witness ==
    /\ pc = "scan"
    /\ s = Short(<<"a", "b", "c">>)
    /\ [i \in DOMAIN sets |-> FlagAt(sets[i].flag).Name] = <<sAll, sBig, sCut>>
    /\ Len(args) # 0
    /\ v = <<>>

\* C7: for a short cluster that starts with an argument-taking flag f,
\* "-fvalue" and "-f=value" assign value to f and nothing else, and "-f"
\* followed by a token assigns that token and removes it from the stream.
C7_ShortFlagValue ==
    [][(pc = "scan" /\ Len(args) # 0 /\ IsShort(Head(args))
          /\ IsArgRune(Head(args)[2]))
        => LET tok == Head(args)
               ref == ShortRef(tok[2])
               value == IF Len(tok) = 2 THEN args[2]
                        ELSE IF tok[3] = "=" THEN SubSeq(tok, 4, Len(tok))
                        ELSE SubSeq(tok, 3, Len(tok))
           IN (Len(tok) > 2 \/ Len(args) > 1)
              => /\ sets' = <<[flag |-> ref, value |-> value]>>
                 /\ pc' = "scan"
                 /\ Assigned(ref, value)
                 /\ args' = IF Len(tok) = 2 THEN Tail(Tail(args)) ELSE Tail(args)]_vars_all

\* "-oab" has assigned "ab" to out: a and b were not taken as flags.
C7_Witness ==
    /\ pc = "scan"
    /\ s = Short(<<"o", "a", "b">>)
    /\ sets = <<[flag |-> ShortFlag(cmd, <<"o">>), value |-> <<"a", "b">>]>>
    /\ vars[sOut] = [val |-> <<"a", "b">>, set |-> TRUE]
    /\ sAll \notin DOMAIN vars

\* The names a child answers to in the suggestion engine.
NamesOf(k) ==
    {Tree[k].Name} \cup {Tree[k].Aliases[i] : i \in DOMAIN Tree[k].Aliases}
                   \cup {Tree[k].Suggested[i] : i \in DOMAIN Tree[k].Suggested}

\* The smallest edit distance, case folded, from the token to a name of k.
DistTo(k, tok) ==
    LET ds == {Ldist(ToLower(tok), ToLower(n)) : n \in NamesOf(k)}
    IN CHOOSE d \in ds : \A e \in ds : d <= e

\* The threshold of command c.
Threshold(c) == IF Tree[c].MinDist > 0 THEN Tree[c].MinDist ELSE DefaultMinDist

Within(c, k, tok) == DistTo(k, tok) <= Threshold(c)

\* The positions, among c's children, of those within the threshold.
Hits(c, tok) ==
    {i \in DOMAIN Tree[c].Commands : Within(c, Tree[c].Commands[i], tok)}

\* A bare token that no child of the cursor answers to, with no positional
\* collected yet, is the next token.
UnknownBare ==
    /\ pc = "scan"
    /\ Len(args) # 0
    /\ IsBare(Head(args))
    /\ Len(v) = 0
    /\ \A i \in DOMAIN Tree[cmd].Commands :
          LET kid == Tree[Tree[cmd].Commands[i]]
          IN kid.Name # Head(args) /\ ~Contains(kid.Aliases, Head(args))

\* C8 as claimed: a bare token matching no child of the cursor, with no
\* positional collected yet, makes Parse return a suggestion error or the
\* unknown-command error.
C8_UnknownTokenFailsParse ==
    [][UnknownBare =>
          /\ pc' = "done"
          /\ ret'.err \in {"SuggestionError", "ErrUnknownCommand"}]_vars_all

\* C8 as amended: such a token becomes the first positional and Parse goes
\* on without error; Command.Suggest, called on the resolved command with
\* the positionals, gives the suggestion error when a child is within the
\* threshold of the first positional and the unknown-command error when
\* none is.
C8_UnknownTokenIsPositional ==
    [][/\ UnknownBare =>
            /\ v' = <<Head(args)>>
            /\ pc' = "scan"
            /\ UNCHANGED <<cmd, vars, ret>>
       /\ (pc = "done" /\ pc' = "end" /\ Len(ret.args) # 0) =>
            sug'.kind = IF Hits(ret.cmd, ret.args[1]) # {}
                        THEN "SuggestionError" ELSE "ErrUnknownCommand"]_vars_all

\* Parse returned the unknown token "Pul" as a positional, and Suggest on
\* the result gave a suggestion error.
C8_Witness ==
    /\ pc = "end"
    /\ v = <<sPul>>
    /\ ret = [cmd |-> Root, args |-> <<sPul>>, err |-> ""]
    /\ sug.kind = "SuggestionError"

\* C9: Suggest returns nil only without a token; with one, it names the
\* first child in declaration order that has a name, alias or suggested
\* name within the threshold of the token, both case folded, and returns the
\* unknown-command error when no child has one.
C9_SuggestFirstWithinThreshold ==
    pc = "end" =>
        IF Len(ret.args) = 0 THEN sug = NoError
        ELSE LET hits == Hits(ret.cmd, ret.args[1])
             IN IF hits = {}
                THEN sug = [kind |-> "ErrUnknownCommand", cmd |-> NoCmd]
                ELSE sug = [kind |-> "SuggestionError",
                            cmd |-> Tree[ret.cmd].Commands[
                                        CHOOSE i \in hits : \A j \in hits : i <= j]]

\* Under push, "Pul" is near org only by org's suggested name: org is named.
C9_Witness ==
    /\ pc = "end"
    /\ ret.cmd = 2
    /\ ret.args = <<sPul>>
    /\ Ldist(ToLower(sPul), Tree[5].Name) > Threshold(2)
    /\ sug = [kind |-> "SuggestionError", cmd |-> 5]

\* C10 as claimed: the child a suggestion error names is a closest one: no
\* child of the command has a smaller edit distance to the token.
C10_SuggestNamesClosest ==
    (pc = "end" /\ sug.kind = "SuggestionError") =>
        \A i \in DOMAIN Tree[ret.cmd].Commands :
            DistTo(sug.cmd, ret.args[1]) <= DistTo(Tree[ret.cmd].Commands[i], ret.args[1])

\* C10 as amended: the child a suggestion error names is within the
\* threshold, and every child declared before it is farther than the
\* threshold; a child declared after it may be closer.
C10_SuggestNamesFirst ==
    (pc = "end" /\ sug.kind = "SuggestionError") =>
        \E i \in DOMAIN Tree[ret.cmd].Commands :
            /\ Tree[ret.cmd].Commands[i] = sug.cmd
            /\ Within(ret.cmd, sug.cmd, ret.args[1])
            /\ \A j \in 1..(i - 1) :
                  ~Within(ret.cmd, Tree[ret.cmd].Commands[j], ret.args[1])

\* Two children are within the threshold and the one named is not the
\* closer one.
C10_Witness ==
    /\ pc = "end"
    /\ sug.kind = "SuggestionError"
    /\ Cardinality(Hits(ret.cmd, ret.args[1])) > 1
    /\ \E i \in Hits(ret.cmd, ret.args[1]) :
          DistTo(Tree[ret.cmd].Commands[i], ret.args[1]) < DistTo(sug.cmd, ret.args[1])

\* Whether child k answers to the name: its name or one of its aliases.
Answers(k, name) ==
    Tree[k].Name = name \/ \E i \in DOMAIN Tree[k].Aliases : Tree[k].Aliases[i] = name

\* k is the first child of p, in declaration order, that answers to name.
FirstAnswering(p, k, name) ==
    \E i \in DOMAIN Tree[p].Commands :
        /\ Tree[p].Commands[i] = k
        /\ Answers(k, name)
        /\ \A j \in 1..(i - 1) : ~Answers(Tree[p].Commands[j], name)

\* C11: Lookup never returns nil; for no names it returns the receiver; the
\* command it returns is reached from the receiver by taking, for each name
\* of a leading part of the names, the first child in declaration order
\* that answers to it by name or alias, and that leading part ends at the
\* end of the names or before the first name no child of the node reached
\* answers to, whatever names follow it.
C11_LookupWalksGreedily ==
    pc = "looked" =>
        /\ walk.ret # NoCmd
        /\ names = <<>> => walk.ret = cmd
        /\ \E k \in 0..Len(names) :
              \E f \in [0..k -> CmdIds] :
                  /\ f[0] = cmd
                  /\ \A j \in 1..k : FirstAnswering(f[j - 1], f[j], names[j])
                  /\ walk.ret = f[k]
                  /\ \/ k = Len(names)
                     \/ \A c \in DOMAIN Tree[f[k]].Commands :
                            ~Answers(Tree[f[k]].Commands[c], names[k + 1])

\* Lookup("push", "zzz", "org") on the root returned push: it stopped at
\* "zzz" and did not go on to push's child org.
C11_Witness ==
    /\ pc = "looked"
    /\ cmd = Root
    /\ names = <<sPush, sZzz, sOrg>>
    /\ walk.ret = 2

\* C12: once the flag set is built, Command.Flag asked (parents = false)
\* for the short name of a flag of the set that has one, with short = true,
\* returns that flag, and asked for its long name, with short = false,
\* returns that flag.
C12_FlagFindsDeclared ==
    pc = "found" =>
        \A i \in DOMAIN fs :
            fs[i].Short # <<>> =>
                /\ (got.short /\ got.name = fs[i].Short) => got.idx = i
                /\ (~got.short /\ got.name = fs[i].Name) => got.idx = i

\* C20: no two flags of the flag set have the same long name.
C20_LongNamesUnique ==
    \A i, j \in DOMAIN fs : i # j => fs[i].Name # fs[j].Name

\* The vars hold no explicitly assigned value.
NoExplicit(vars_) == \A n \in DOMAIN vars_ : ~vars_[n].set

\* The call populated every flag without forcing: all = true, overwrite =
\* false, and returned no error.
PopulatedAll(call) == call.all /\ ~call.overwrite /\ call.err = ""

C14_OverwriteKeepsEntries ==
    \A i \in DOMAIN calls :
        (calls[i].overwrite /\ calls[i].err = "")
        => \A k \in DOMAIN Tree[cmd].Flags :
              LET g == Tree[cmd].Flags[k]
              IN g.Name \in DOMAIN calls[i].before
                 => /\ g.Name \in DOMAIN calls[i].after
                    /\ calls[i].after[g.Name].val =
                          (IF g.Def # Nil THEN g.Def ELSE <<>>)

\* The commands from the root down to c, in that order.
RECURSIVE PathTo(_)
PathTo(c) == IF Tree[c].Parent = NoCmd THEN <<c>> ELSE Append(PathTo(Tree[c].Parent), c)

\* The long names of all the flags of the tree.
FlagNames == UNION {{Tree[c].Flags[k].Name : k \in DOMAIN Tree[c].Flags} : c \in CmdIds}

\* The defaults declared for the name along the path to c, root first.
DefaultsOn(c, name) ==
    LET path == PathTo(c)
        RECURSIVE From(_)
        From(i) ==
            IF i > Len(path) THEN <<>>
            ELSE LET here == {k \in DOMAIN Tree[path[i]].Flags :
                                 /\ Tree[path[i]].Flags[k].Name = name
                                 /\ Tree[path[i]].Flags[k].Def # Nil
                                 /\ Tree[path[i]].Flags[k].Type # "HookT"}
                 IN (IF here = {} THEN <<>>
                     ELSE <<Tree[path[i]].Flags[CHOOSE k \in here : TRUE].Def>>)
                    \o From(i + 1)
    IN From(1)

\* Whether a command on the path to c declares a flag of that name.
DeclaredOn(c, name) ==
    \E i \in DOMAIN PathTo(c) :
        \E k \in DOMAIN Tree[PathTo(c)[i]].Flags : Tree[PathTo(c)[i]].Flags[k].Name = name

\* C15: once Parse has populated the root, for every flag name not
\* explicitly assigned, vars holds the default of the deepest command on the
\* path from the root to the cursor that declares a default for it (the
\* descendant's, when an ancestor has one too), and no entry when no command
\* on that path declares one; vars never holds an entry for a name declared
\* only by commands off the path.
C15_DefaultsRootToLeaf ==
    pc \in {"scan", "done", "end"} =>
        \A name \in FlagNames :
            /\ name \in DOMAIN vars => DeclaredOn(cmd, name)
            /\ (name \notin DOMAIN vars \/ ~vars[name].set)
                 => LET defs == DefaultsOn(cmd, name)
                    IN IF defs = <<>> THEN name \notin DOMAIN vars
                       ELSE /\ name \in DOMAIN vars
                            /\ vars[name] = [val |-> defs[Len(defs)], set |-> FALSE]

\* Parse resolved push: out, never given, holds push's default, not the
\* root's, and fetch's flag tag has no entry.
C15_Witness ==
    /\ pc = "done"
    /\ ret.err = ""
    /\ ret.cmd = 2
    /\ Len(DefaultsOn(2, sOut)) = 2
    /\ vars[sOut] = [val |-> <<"p">>, set |-> FALSE]
    /\ sTag \notin DOMAIN vars

\* The token Comps is asked to complete.
LastArg == given[Len(given)]

\* The names among the candidates Comps returned.
Candidates == {comps.list[i] : i \in DOMAIN comps.list}

\* The children of command c.
Children(c) == {Tree[c].Commands[i] : i \in DOMAIN Tree[c].Commands}

\* C16: for tokens [sub, x], sub a child of the root and x not starting
\* with a dash, Comps returns without error, every candidate is a child of
\* sub, and every child of sub of which x is a case-folded prefix is a
\* candidate.
C16_CompsFromResolvedCommand ==
    (pc = "compsdone" /\ Len(given) = 2 /\ ~HasPrefix(given[2], sDash)
        /\ \E k \in Children(Root) : Answers(k, given[1]))
    => LET sub == CHOOSE k \in Children(Root) : FirstAnswering(Root, k, given[1])
       IN /\ comps.err = ""
          /\ \A n \in Candidates : \E k \in Children(sub) : Tree[k].Name = n
          /\ \A k \in Children(sub) :
                PrefixMatch(k, given[2]) => Tree[k].Name \in Candidates

\* The long names of the flags visible from c: its own and its ancestors'.
VisibleFlagNames(c) ==
    UNION {{Tree[PathTo(c)[i]].Flags[k].Name : k \in DOMAIN Tree[PathTo(c)[i]].Flags} :
              i \in DOMAIN PathTo(c)}

\* C17: when Comps returns without error for a last token starting with
\* "--", the candidates are the long names of the flags visible from the
\* resolved command that start with the text after "--"; so there is a
\* candidate when there is such a flag.
C17_LongFlagCandidates ==
    (pc = "compsdone" /\ comps.err = "" /\ HasPrefix(LastArg, sDashDash))
    => Candidates = {n \in VisibleFlagNames(cmd) : HasPrefix(n, SliceFrom(LastArg, 2))}

\* The token, scanned as a flag on the cursor, is or ends in a flag that
\* takes a value, and has no "=".
AwaitsValue(tok) ==
    /\ ~IsBare(tok)
    /\ tok # sDashDash
    /\ ~ContainsEq(tok)
    /\ IF IsLong(tok)
       THEN LongFlag(cmd, SliceFrom(tok, 2)) # NoFlag
            /\ ~FlagAt(LongFlag(cmd, SliceFrom(tok, 2))).NoArg
       ELSE /\ IsArgRune(tok[Len(tok)])
            /\ \A j \in 2..(Len(tok) - 1) :
                  IsNoArgRune(tok[j]) /\ FlagAt(ShortRef(tok[j])).Type # "HookT"

\* C18: when the token before the last is scanned as a flag that takes a
\* value and has no "=", the Parse of Comps ends there with an error, and
\* after a failed Parse Comps returns no candidate, whatever the last token
\* is.
C18_NoCandidatesAfterValueFlag ==
    [][/\ (pc = "scan" /\ Len(given) > 0 /\ Len(args) = 1 /\ AwaitsValue(Head(args)))
            => (pc' = "done" /\ ret'.err # "")
       /\ (pc = "done" /\ Len(given) > 0 /\ ret.err # "")
            => (pc' = "compsdone" /\ comps'.list = <<>>)]_vars_all

\* Comps("--out", "pu") returned no candidate, though "pu" is a prefix of
\* the names of two children of the root.
C18_Witness ==
    /\ pc = "compsdone"
    /\ given = <<Long(sOut), sPu>>
    /\ s = Long(sOut)
    /\ \E k \in Children(Root) : PrefixMatch(k, sPu)
    /\ comps.list = <<>>

\* C19: when the Parse of Comps met an unknown flag or the early exit of a
\* hook flag in a token before the last, Comps returns a nil error and not
\* the error directive.
C19_CompsLenient ==
    (pc = "compsdone" /\ ret.err \in {"ErrUnknownFlag", "ErrExit"})
    => (comps.err = "" /\ comps.dir # "CompError")

\* C21: the validator built by Args(minimum, maximum) accepts an argument
\* list of length n exactly when (minimum < 0 or n >= minimum) and
\* (maximum < 0 or n <= maximum), and rejects with the invalid-arg-count
\* error otherwise; a negative minimum or maximum means no bound.
C21_ArgsCountBounds ==
    (pc = "validated" /\ arity.values = <<>>) =>
        LET n == Len(args)
            within == /\ (arity.minimum < 0 \/ n >= arity.minimum)
                      /\ (arity.maximum < 0 \/ n <= arity.maximum)
        IN /\ within => verr = ""
           /\ ~within => verr = "ErrInvalidArgCount"

\* Parse has failed on an argument error: a missing argument, a malformed
\* value, or an unknown flag after the first rune of a short cluster.
ArgumentError ==
    /\ pc = "done"
    /\ \/ ret.err \in {"ErrMissingArgument", "ErrInvalidValue"}
       \/ ret.err = "ErrUnknownFlag" /\ IsShort(s) /\ Len(sets) > 0

\* C22: when Parse fails with an argument error it returns no command and
\* no positional list, and vars holds no value assigned by any flag token of
\* that parse.
C22_FailureLeavesNoAssignment ==
    ArgumentError =>
        /\ ret.cmd = NoCmd
        /\ ret.args = <<>>
        /\ NoExplicit(vars)

\* The token at the head of args is a long flag written without "=" that
\* resolves to an argument-taking flag, and a token follows it.
LongAwaitingNext ==
    /\ pc = "scan"
    /\ Len(args) >= 2
    /\ IsLong(Head(args))
    /\ Index(Head(args), "=") < 0
    /\ LongFlag(cmd, TrimPrefix(Head(args), sDashDash)) # NoFlag
    /\ ~FlagAt(LongFlag(cmd, TrimPrefix(Head(args), sDashDash))).NoArg

\* C24: an argument-taking long flag written without "=" is assigned the
\* next token exactly as written, whatever it looks like, and that token is
\* removed from the stream: it is never classified as a flag, terminator,
\* sub-command or positional.
C24_LongFlagTakesNextToken ==
    [][LongAwaitingNext =>
          LET ref == LongFlag(cmd, TrimPrefix(Head(args), sDashDash))
          IN /\ sets' = <<[flag |-> ref, value |-> args[2]]>>
             /\ pc' = "scan"
             /\ Assigned(ref, args[2])
             /\ args' = SubSeq(args, 3, Len(args))
             /\ UNCHANGED <<cmd, v, ret>>]_vars_all

\* Parse has returned the root and no positionals after --out took the
\* terminator as its value.
C24_Witness ==
    /\ pc = "done"
    /\ ret = [cmd |-> Root, args |-> <<>>, err |-> ""]
    /\ s = Long(sOut)
    /\ sOut \in DOMAIN vars
    /\ vars[sOut] = [val |-> sDashDash, set |-> TRUE]

\* The command declares a flag of that long name (short: of that short
\* name).
Declares(c, name, short) ==
    \E k \in DOMAIN Tree[c].Flags :
        IF short THEN Tree[c].Flags[k].Short = name ELSE Tree[c].Flags[k].Name = name

\* The positions on the path from the root to c of the commands declaring
\* the name.
Declarers(c, name, short) ==
    {i \in DOMAIN PathTo(c) : Declares(PathTo(c)[i], name, short)}

\* The deepest of them.
NearestDeclarer(c, name, short) ==
    PathTo(c)[CHOOSE i \in Declarers(c, name, short) :
                 \A j \in Declarers(c, name, short) : j <= i]

\* The name the flag token s asks for first: the long name before "=", or
\* the first rune of a short cluster.
AskedName == IF IsLong(s) THEN Cut(TrimPrefix(s, sDashDash)).before ELSE <<s[2]>>

\* C25: a flag token is resolved against the cursor command as it is when
\* the token is scanned and then against its ancestors, nearest first: the
\* flag assigned is the one declared by the deepest command on the path from
\* the root to the cursor that declares the name (an ancestor's after
\* descending, the child's when both declare it), and a name declared on no
\* command of that path - a flag of a child not yet descended into included
\* - makes Parse fail with the unknown-flag error.
C25_FlagResolvedUpTheChain ==
    (pc \in {"scan", "done"} /\ (IsLong(s) \/ IsShort(s))) =>
        IF Declarers(cmd, AskedName, IsShort(s)) = {}
        THEN pc = "done" /\ ret.err = "ErrUnknownFlag" /\ sets = <<>>
        ELSE /\ ret.err = "ErrUnknownFlag" => Len(sets) > 0
             /\ ret.err # "ErrMissingArgument" => Len(sets) > 0
             /\ Len(sets) > 0 =>
                   /\ sets[1].flag.cmd = NearestDeclarer(cmd, AskedName, IsShort(s))
                   /\ Declares(sets[1].flag.cmd, AskedName, IsShort(s))

\* After descending into push, --all has been resolved to the root's flag.
C25_Witness ==
    /\ pc = "done"
    /\ ret.err = ""
    /\ ret.cmd = 2
    /\ s = Long(sAll)
    /\ Len(sets) = 1
    /\ sets[1].flag.cmd = Root

\* C26: an explicit command-line assignment is never replaced by a later
\* default population: when parse descends into a sub-command, every entry
\* of vars that was explicitly assigned is left as it is, also when the
\* sub-command declares a default for the same flag name.
C26_ExplicitSurvivesDefaults ==
    [][(pc = "scan" /\ Len(args) # 0 /\ IsBare(Head(args)) /\ cmd' # cmd)
        => \A n \in DOMAIN vars : vars[n].set => SameEntry(n)]_vars_all

\* Parse has returned push, whose out has the default "p", and vars still
\* holds the text given to --out before the push token.
C26_Witness ==
    /\ pc = "done"
    /\ ret = [cmd |-> 2, args |-> <<>>, err |-> ""]
    /\ s = sPush
    /\ vars[sOut] = [val |-> <<"a", "=", "b">>, set |-> TRUE]
    /\ \E k \in DOMAIN Tree[2].Flags :
          Tree[2].Flags[k].Name = sOut /\ Tree[2].Flags[k].Def = <<"p">>

\* How a child matches the typed name: 1 exactly (name or alias), 2 only
\* case-insensitively, 3 only by case-insensitive prefix, 4 only by edit
\* distance within the command's threshold, 5 not at all.
MatchRank(c, k, name) ==
    LET all == <<Tree[k].Name>> \o Tree[k].Aliases
    IN IF \E i \in DOMAIN all : all[i] = name THEN 1
       ELSE IF \E i \in DOMAIN all : ToLower(all[i]) = ToLower(name) THEN 2
       ELSE IF \E i \in DOMAIN all : HasPrefix(ToLower(all[i]), ToLower(name)) THEN 3
       ELSE IF \E i \in DOMAIN all :
                  Ldist(ToLower(all[i]), ToLower(name)) <= MinDistOf(c) THEN 4
       ELSE 5

ChildNamed(c, n) == CHOOSE k \in Children(c) : Tree[k].Name = n

\* C27: in the list returned by CompCommands every child matching the typed
\* name exactly comes before every child matching only case-insensitively,
\* which comes before every child matching only by prefix, which comes
\* before every child matching only by edit distance; each child name
\* appears at most once.
C27_CandidatesRanked ==
    pc = "completed" =>
        /\ \A i, j \in DOMAIN comps.list : i < j =>
              /\ comps.list[i] # comps.list[j]
              /\ MatchRank(cmd, ChildNamed(cmd, comps.list[i]), given[1])
                    <= MatchRank(cmd, ChildNamed(cmd, comps.list[j]), given[1])
        /\ \A i \in DOMAIN comps.list :
              MatchRank(cmd, ChildNamed(cmd, comps.list[i]), given[1]) < 5

\* The three rules of NewFlag, and the length of the short name.
WellFormed(g) ==
    /\ g.Name # <<>>
    /\ g.NoArg => g.NoArgDef # Nil
    /\ g.Type = "HookT" => g.Def # Nil
    /\ g.Short # <<>> => Len(g.Short) = 1

\* C28: every flag held by a FlagSet built through FlagSet.Var, also after
\* NewHelpFor has rewritten a flag into the help hook, has a non-empty long
\* name, a non-nil NoArgDef when it is NoArg, a non-nil default action when
\* it is a hook, and a short name of exactly one character when it has one.
C28_FlagsWellFormed ==
    \A i \in DOMAIN fs : WellFormed(fs[i])

\* NewHelpFor has rewritten a flag added by Var into the help hook.
C28_Witness ==
    /\ pc = "helped"
    /\ \E i \in DOMAIN fs :
          /\ fs[i].Special = sHookHelp
          /\ fs[i].Type = "HookT"
          /\ fs[i].NoArg

\* Two invocations stand at accesses of help.Context that are not ordered,
\* one of them the write of SetContext.
RaceOnHelpContext ==
    \E p, q \in Parsers :
        /\ p # q
        /\ procs[p].pc = "setcontext"
        /\ procs[q].pc \in {"setcontext", "writeto"}

\* C23: two Parse invocations running at once on the same tree, with
\* different argument vectors and separate Vars, never write to state
\* reachable from the tree, so that no interleaving is a write/write or
\* read/write race, also when their tokens trigger the help hook: the
\* help's Context is never stored into and no two invocations stand at
\* conflicting accesses of it.
C23_ParsesLeaveTreeAlone ==
    (pc = "race" /\ procs[1].given # procs[2].given) =>
        /\ helpContext = NoCtx
        /\ ~RaceOnHelpContext
        /\ \A p \in Parsers : procs[p].saw \in {NoCtx, p}

====
